---------------------------- MODULE Spec2Model ----------------------------
(***************************************************************************)
(* A model of OrientJS (dist/orient.js): the tour controller created by    *)
(* `var orient = new Orient(options)`, the page it draws its slides on,    *)
(* and the events the browser delivers to it.                              *)
(*                                                                         *)
(* JavaScript values are tagged records: Null, Undefined, Num(i) for a     *)
(* number, El(i) for a slide element, Target(x) for an element of the      *)
(* page.                                                                   *)
(*                                                                         *)
(* A slide element the controller references but which is not under        *)
(* document.body is never attached again (insertSlide attaches only what   *)
(* buildSlide has just built), so neither its identity nor its content can *)
(* be observed: every such reference is written DetachedEl.                *)
(*                                                                         *)
(* A handler is an operator from the state record (Cur) to the            *)
(* state record it leaves behind; an uncaught exception stops the handler  *)
(* where it is raised and keeps the assignments made before it.  What a    *)
(* handler reports is in three more fields of the record it returns:       *)
(* threw (the uncaught exception), log (the console lines) and ran (the    *)
(* callbacks it executed).                                                 *)
(*                                                                         *)
(* The button handlers of a slide are bound to the global `orient`         *)
(* (orient.js:280,292,305,343); the model is of the documented usage, in   *)
(* which that global is this controller (README.md:89,99).                 *)
(***************************************************************************)
EXTENDS Integers, Sequences, FiniteSets, TLC

VARIABLES
    flowURL,            \* this.flowURL
    flowData,           \* this.flowData: the sequence of slide descriptors
    activeSlideIndex,   \* this.activeSlideIndex: Num(i) (0-based) or Null
    activeSlideEl,      \* this.activeSlideEl: Undefined, Null or El(i)
    slideEl,            \* this.slideEl: the slide element built last
    attachTargetEl,     \* this.attachTargetEl: Undefined, Null or Target(x)
    keyListener,        \* handleKeyDown is bound to document "keydown"
    options,            \* the constructor's options (keyEvents, autoScroll)
    page,               \* the slide wrappers under document.body the controller still references
    orphans,            \* the number of slide wrappers under document.body it no longer references
    els,                \* what was rendered into each slide element under document.body
    targetClass,        \* page elements carrying the class orient-target-el
    targetStyle,        \* page elements carrying an inline style attribute
    innerWidth,         \* window.innerWidth
    scrollY,            \* window.scrollY
    inflight,           \* the XMLHttpRequests sent and not yet answered
    second              \* the fields of a second controller on the page, or NoSecond

vars == <<flowURL, flowData, activeSlideIndex, activeSlideEl, slideEl,
          attachTargetEl, keyListener, options, page, orphans, els,
          targetClass, targetStyle, innerWidth, scrollY, inflight, second>>

-----------------------------------------------------------------------------
(* Bounds of the model. *)

MaxPage == 2         \* slide wrappers under document.body at once
MaxInFlight == 1     \* requests in flight at once
MaxFetches == 2      \* requests in flight at once, where only loads, starts and stops are made

-----------------------------------------------------------------------------
(* JavaScript values. *)

Null == [t |-> "null"]
Undefined == [t |-> "undefined"]
Num(i) == [t |-> "num", n |-> i]
El(i) == [t |-> "el", id |-> i]
Target(x) == [t |-> "target", id |-> x]

\* a slide element that is not under document.body
DetachedEl == [t |-> "el", id |-> 0]

\* no other controller than the one the page calls orient was constructed
NoSecond == [t |-> "none"]

Bool(b) == [t |-> "bool", v |-> b]

Truthy(v) == v.t \in {"el", "target"}
IsNum(v) == v.t = "num"

Unset == << >>
Px(n) == << n >>

-----------------------------------------------------------------------------
(* The page: two elements a slide can attach to, and the window. *)

Targets == {"A", "B"}

\* A selector string is the sequence of its pieces: "#a" is <<"#", "a">>.
\* document.querySelector on this page: one element has the id "a", another
\* the attribute data-orient-target='b'.
querySelector(sel) ==
    CASE sel = <<"#", "a">> -> Target("A")
      [] sel = <<"[data-orient-target='", "b", "']">> -> Target("B")
      [] OTHER -> Null

\* el.getBoundingClientRect() plus the scroll offsets: the absolute box
getElAbsolutePosition(x) ==
    IF x = "A"
    THEN [left |-> 100, right |-> 180, top |-> 50, bottom |-> 70,
          height |-> 20, width |-> 80]
    ELSE [left |-> 900, right |-> 1100, top |-> 700, bottom |-> 740,
          height |-> 40, width |-> 200]

Widths == {400, 1200}
Window == [innerHeight |-> 100]
InitialTargetStyle == {"A"}

FLOATING_SLIDE_WIDTH == 360

-----------------------------------------------------------------------------
(* FlowFiles. *)

NoMedia == [type |-> "none", url |-> FALSE]

\* Four slides: a modal with an image, a float attached by a CSS selector
\* (with an onEnd), a float whose data-orient-target names no element, and
\* a sidebar whose media type is neither "video" nor "image".
Modal ==
    [style |-> "modal", target |-> << >>,
     media |-> [type |-> "image", url |-> TRUE], onEnd |-> FALSE]
FloatA ==
    [style |-> "float", target |-> <<"#", "a">>, media |-> NoMedia, onEnd |-> TRUE]
FloatNowhere ==
    [style |-> "float", target |-> <<"nowhere">>, media |-> NoMedia, onEnd |-> FALSE]
BadMedia ==
    [style |-> "sidebar", target |-> << >>,
     media |-> [type |-> "audio", url |-> TRUE], onEnd |-> FALSE]

\* the FlowFiles the server may answer with
Flows ==
    { << >>,
      <<Modal>>,
      <<FloatA, FloatNowhere, Modal>>,
      <<FloatNowhere, FloatA>>,
      <<Modal, BadMedia>> }

\* A video attribute of a FlowFile: absent, true or false.
Attrs == {Undefined, Bool(TRUE), Bool(FALSE)}

VideoMedia ==
    [type : {"video"}, url : BOOLEAN, muted : Attrs, loop : Attrs,
     controls : Attrs, autoplay : Attrs]

\* a float attached by its data-orient-target attribute, and one without target
FloatB ==
    [style |-> "float", target |-> <<"b">>, media |-> NoMedia, onEnd |-> FALSE]
FloatBare ==
    [style |-> "float", target |-> << >>, media |-> NoMedia, onEnd |-> FALSE]

\* The one-slide FlowFiles a render is tried on: every video, every float.
RenderFlows ==
    {<<[style |-> "modal", target |-> << >>, media |-> m, onEnd |-> FALSE]>> :
        m \in VideoMedia}
    \cup {<<FloatA>>, <<FloatB>>, <<FloatBare>>, <<FloatNowhere>>}

\* window widths at construction: narrow, the width at which a slide next to
\* "#a" fits exactly (100 + 360), and wide
RenderWidths == {400, 460, 1200}

\* the slide numbers jumpToSlide is called with
SlideNumbers == 0..4

URLs == {"/flows/demo.json", "/flows/new_flow_file.json"}

-----------------------------------------------------------------------------
(* The state a handler works on, and what it reports. *)

\* the controller, the page and the window, as one record
State ==
    [flowData |-> flowData, activeSlideIndex |-> activeSlideIndex,
     activeSlideEl |-> activeSlideEl, slideEl |-> slideEl,
     attachTargetEl |-> attachTargetEl, keyListener |-> keyListener,
     page |-> page, orphans |-> orphans, els |-> els, targetClass |-> targetClass,
     targetStyle |-> targetStyle, innerWidth |-> innerWidth,
     scrollY |-> scrollY, second |-> second]

\* a handler entered in state st: nothing thrown, logged or called yet
Run(st) == [threw |-> "none", log |-> {}, ran |-> << >>, ret |-> Undefined] @@ st

Cur == Run(State)

Throw(s, e) == [s EXCEPT !.threw = e]
Log(s, m) == [s EXCEPT !.log = @ \cup {m}]
Ok(s) == s.threw = "none"

\* this.flowData[this.activeSlideIndex] is an object (not undefined)
HasSlide(s) ==
    /\ IsNum(s.activeSlideIndex)
    /\ s.activeSlideIndex.n + 1 \in 1..Len(s.flowData)

SlideAt(s) == s.flowData[s.activeSlideIndex.n + 1]

\* document.createElement: an element that no reference names yet
FreshId(s) ==
    LET live == s.page
                \cup (IF s.activeSlideEl.t = "el" THEN {s.activeSlideEl.id} ELSE {})
        free == {1, 2, 3} \ live
    IN  CHOOSE i \in free : \A j \in free : i <= j

NewSlideEl(s, fsd) ==
    [index |-> s.activeSlideIndex.n, slide |-> fsd,
     top |-> Unset, left |-> Unset, right |-> Unset, alignedRight |-> FALSE,
     media |-> "none", src |-> FALSE,
     muted |-> Undefined, loop |-> Undefined, controls |-> Undefined,
     autoplay |-> Undefined,
     exitButton |-> FALSE, prevButton |-> FALSE, nextButton |-> FALSE,
     wrapped |-> FALSE]

-----------------------------------------------------------------------------
(* The handlers of orient.js. *)

\* document.body.removeChild(ref)
removeChild(s, ref) ==
    IF ~Ok(s) THEN s
    ELSE IF ref.t # "el" THEN Throw(s, "TypeError")
    ELSE IF ref.id \notin s.page THEN Throw(s, "NotFoundError")
    ELSE [s EXCEPT !.page = @ \ {ref.id}]

removeAttachedTargetStyles(s) ==
    IF ~Ok(s) THEN s
    ELSE IF Truthy(s.attachTargetEl)
    THEN [s EXCEPT !.targetStyle = @ \ {s.attachTargetEl.id},
                   !.targetClass = @ \ {s.attachTargetEl.id}]
    ELSE s

\* PlaceSlide with the test of line 488 written >=
PlaceSlide_AlignsAtEdge(s) ==
    IF ~Truthy(s.attachTargetEl)
    THEN LET s1 == Log(s, "Could not attach slide to element")
         IN  IF s1.slideEl.t # "el" THEN Throw(s1, "TypeError")
             ELSE IF s1.slideEl = DetachedEl THEN s1
             ELSE [s1 EXCEPT !.els[s1.slideEl.id].top = Px(0),
                             !.els[s1.slideEl.id].left = Px(0)]
    ELSE LET s1 == [s EXCEPT !.targetClass = @ \cup {s.attachTargetEl.id}]
             boundingRect == getElAbsolutePosition(s.attachTargetEl.id)
             id == s1.slideEl.id
             s2 == IF s1.slideEl = DetachedEl THEN s1
                   ELSE IF boundingRect.left + FLOATING_SLIDE_WIDTH >= s1.innerWidth
                   THEN [s1 EXCEPT !.els[id].alignedRight = TRUE,
                                   !.els[id].right = Px(s1.innerWidth - boundingRect.right)]
                   ELSE [s1 EXCEPT !.els[id].left = Px(boundingRect.left)]
             s3 == IF s1.slideEl = DetachedEl THEN s2
                   ELSE [s2 EXCEPT !.els[id].top = Px(boundingRect.top + boundingRect.height)]
             y == (boundingRect.top + boundingRect.height) - (Window.innerHeight \div 2)
         IN  IF s1.slideEl.t # "el" THEN Throw(s1, "TypeError")
             ELSE IF options.autoScroll
                  THEN [s3 EXCEPT !.scrollY = IF y < 0 THEN 0 ELSE y]
                  ELSE s3

\* lines 475-504 of positionSlide, once the selector is resolved
PlaceSlide(s) ==
    IF ~Truthy(s.attachTargetEl)
    THEN LET s1 == Log(s, "Could not attach slide to element")
         IN  IF s1.slideEl.t # "el" THEN Throw(s1, "TypeError")
             ELSE IF s1.slideEl = DetachedEl THEN s1
             ELSE [s1 EXCEPT !.els[s1.slideEl.id].top = Px(0),
                             !.els[s1.slideEl.id].left = Px(0)]
    ELSE LET s1 == [s EXCEPT !.targetClass = @ \cup {s.attachTargetEl.id}]
             boundingRect == getElAbsolutePosition(s.attachTargetEl.id)
             id == s1.slideEl.id
             s2 == IF s1.slideEl = DetachedEl THEN s1
                   ELSE IF boundingRect.left + FLOATING_SLIDE_WIDTH > s1.innerWidth
                   THEN [s1 EXCEPT !.els[id].alignedRight = TRUE,
                                   !.els[id].right = Px(s1.innerWidth - boundingRect.right)]
                   ELSE [s1 EXCEPT !.els[id].left = Px(boundingRect.left)]
             s3 == IF s1.slideEl = DetachedEl THEN s2
                   ELSE [s2 EXCEPT !.els[id].top = Px(boundingRect.top + boundingRect.height)]
             y == (boundingRect.top + boundingRect.height) - (Window.innerHeight \div 2)
         IN  IF s1.slideEl.t # "el" THEN Throw(s1, "TypeError")
             ELSE IF options.autoScroll
                  THEN [s3 EXCEPT !.scrollY = IF y < 0 THEN 0 ELSE y]
                  ELSE s3

\* positionSlide without the return of lines 461-463: an empty target goes on
\* to the data-orient-target query, which finds nothing
positionSlide_NoEarlyReturn(s) ==
    IF ~Ok(s) THEN s
    ELSE IF ~HasSlide(s) THEN Throw(s, "TypeError")
    ELSE LET attachTarget == SlideAt(s).target IN
         IF attachTarget = << >> THEN PlaceSlide([s EXCEPT !.attachTargetEl = Null])
         ELSE IF attachTarget[1] = "#" \/ attachTarget[1] = "."
              THEN PlaceSlide([s EXCEPT !.attachTargetEl = querySelector(attachTarget)])
              ELSE PlaceSlide([s EXCEPT !.attachTargetEl =
                         querySelector(<<"[data-orient-target='">> \o attachTarget \o <<"']">>)])

positionSlide(s) ==
    IF ~Ok(s) THEN s
    ELSE IF ~HasSlide(s) THEN Throw(s, "TypeError")
    ELSE LET attachTarget == SlideAt(s).target IN
         IF attachTarget = << >> THEN s
         ELSE IF attachTarget[1] = "#" \/ attachTarget[1] = "."
              THEN PlaceSlide([s EXCEPT !.attachTargetEl = querySelector(attachTarget)])
              ELSE PlaceSlide([s EXCEPT !.attachTargetEl =
                         querySelector(<<"[data-orient-target='">> \o attachTarget \o <<"']">>)])

\* the default written v || d
OrDefault_Falsy(v, d) == IF v = Undefined \/ v = Bool(FALSE) THEN Bool(d) ELSE v

\* (v === undefined) ? d : v
OrDefault(v, d) == IF v = Undefined THEN Bool(d) ELSE v

\* lines 215-226 of buildSlide: the media element is created
CreateMediaEl(s) ==
    LET media == SlideAt(s).media
        id == s.slideEl.id
    IN  IF media.type = "video"
        THEN [s EXCEPT !.els[id].media = "video",
                       !.els[id].muted = OrDefault(media.muted, TRUE),
                       !.els[id].loop = OrDefault(media.loop, TRUE),
                       !.els[id].controls = OrDefault(media.controls, FALSE),
                       !.els[id].autoplay = OrDefault(media.autoplay, TRUE)]
        ELSE [s EXCEPT !.els[id].media = "image"]

\* lines 209-243 of buildSlide: the media block
BuildMedia(s) ==
    LET media == SlideAt(s).media
    IN  IF ~Ok(s) \/ media.type = "none" THEN s
        ELSE IF media.type \in {"video", "image"}
        THEN IF media.url
             THEN [CreateMediaEl(s) EXCEPT !.els[s.slideEl.id].src = TRUE]
             ELSE Log(CreateMediaEl(s), "URL not specified for the media element")
        ELSE LET s1 == Log(s, "Media type should be 'video' or 'image'")
             IN  IF media.url THEN Throw(s1, "TypeError")
                 ELSE Throw(Log(s1, "URL not specified for the media element"), "TypeError")

\* BuildButtons with the test of line 296 written against flowData.length
BuildButtons_NextOnLast(s) ==
    IF ~Ok(s) THEN s
    ELSE LET id == s.slideEl.id IN
         [s EXCEPT !.els[id].exitButton = TRUE,
                   !.els[id].prevButton = (s.activeSlideIndex.n > 0),
                   !.els[id].nextButton = (s.activeSlideIndex.n < Len(s.flowData)),
                   !.els[id].wrapped = TRUE,
                   !.ret = El(id)]

\* lines 268-351 of buildSlide: the buttons and the wrapper
BuildButtons(s) ==
    IF ~Ok(s) THEN s
    ELSE LET id == s.slideEl.id IN
         [s EXCEPT !.els[id].exitButton = TRUE,
                   !.els[id].prevButton = (s.activeSlideIndex.n > 0),
                   !.els[id].nextButton = (s.activeSlideIndex.n < Len(s.flowData) - 1),
                   !.els[id].wrapped = TRUE,
                   !.ret = El(id)]

buildSlide(s) ==
    IF ~Ok(s) THEN s
    ELSE IF ~HasSlide(s) THEN Throw(s, "TypeError")
    ELSE LET flowSlideData == SlideAt(s)
             id == FreshId(s)
             s1 == [s EXCEPT !.slideEl = El(id),
                             !.els = (id :> NewSlideEl(s, flowSlideData)) @@ s.els]
             s2 == IF flowSlideData.style = "float"
                   THEN positionSlide([s1 EXCEPT !.attachTargetEl = Null])
                   ELSE s1
         IN  BuildButtons(BuildMedia(s2))

insertSlide(s) ==
    IF ~Ok(s) THEN s
    ELSE [s EXCEPT !.page = @ \cup {s.activeSlideEl.id}]

\* this.activeSlideEl = this.buildSlide(); this.insertSlide();
BuildAndInsert(s) ==
    LET b == buildSlide(s)
    IN  IF ~Ok(b) THEN b
        ELSE insertSlide([b EXCEPT !.activeSlideEl = b.ret])

\* the onEnd of the current slide, if it is set
RunOnEnd(s) ==
    IF ~Ok(s) THEN s
    ELSE IF ~HasSlide(s) THEN Throw(s, "TypeError")
    ELSE IF SlideAt(s).onEnd
         THEN [s EXCEPT !.ran = Append(@, <<"onEnd", s.activeSlideIndex.n>>)]
         ELSE s

stopFlow(s) ==
    IF ~Ok(s) THEN s
    ELSE LET s1 == IF Truthy(s.activeSlideEl)
                   THEN removeAttachedTargetStyles(removeChild(s, s.activeSlideEl))
                   ELSE s
         IN  IF ~Ok(s1) THEN s1
             ELSE [s1 EXCEPT !.activeSlideEl = Null,
                             !.activeSlideIndex = Null,
                             !.keyListener = FALSE]

startFlow(s) ==
    IF ~Ok(s) THEN s
    ELSE BuildAndInsert([s EXCEPT !.activeSlideIndex = Num(0)])

\* nextSlide with the onEnd block of lines 82-88 after the increment of line 90
nextSlide_OnEndAfterIncrement(s) ==
    LET s0 == removeAttachedTargetStyles(removeChild(s, s.activeSlideEl))
    IN  IF ~Ok(s0) THEN s0
        ELSE LET s1 == RunOnEnd([s0 EXCEPT !.activeSlideIndex = Num(@.n + 1)])
             IN  IF ~Ok(s1) THEN s1
                 ELSE IF s1.activeSlideIndex.n > Len(s1.flowData) - 1
                      THEN stopFlow([s1 EXCEPT !.activeSlideEl = Null])
                      ELSE BuildAndInsert(s1)

nextSlide(s) ==
    LET s1 == RunOnEnd(removeAttachedTargetStyles(removeChild(s, s.activeSlideEl)))
    IN  IF ~Ok(s1) THEN s1
        ELSE LET s2 == [s1 EXCEPT !.activeSlideIndex = Num(@.n + 1)]
             IN  IF s2.activeSlideIndex.n > Len(s2.flowData) - 1
                 THEN stopFlow([s2 EXCEPT !.activeSlideEl = Null])
                 ELSE BuildAndInsert(s2)

\* prevSlide with the test of line 115 written >= 0
prevSlide_StartNotGuarded(s) ==
    LET s1 == RunOnEnd(s)
    IN  IF ~Ok(s1) THEN s1
        ELSE IF s1.activeSlideIndex.n >= 0
             THEN LET s2 == removeAttachedTargetStyles(removeChild(s1, s1.activeSlideEl))
                  IN  IF ~Ok(s2) THEN s2
                      ELSE BuildAndInsert([s2 EXCEPT !.activeSlideIndex = Num(@.n - 1)])
             ELSE Log(s1, "At start of flow - can't go any further back.")

prevSlide(s) ==
    LET s1 == RunOnEnd(s)
    IN  IF ~Ok(s1) THEN s1
        ELSE IF s1.activeSlideIndex.n > 0
             THEN LET s2 == removeAttachedTargetStyles(removeChild(s1, s1.activeSlideEl))
                  IN  IF ~Ok(s2) THEN s2
                      ELSE BuildAndInsert([s2 EXCEPT !.activeSlideIndex = Num(@.n - 1)])
             ELSE Log(s1, "At start of flow - can't go any further back.")

\* jumpToSlide with the test of line 135 written for a zero-based number
jumpToSlide_ZeroBased(s, slideNo) ==
    IF slideNo < 0 \/ slideNo > Len(s.flowData)
    THEN Log(s, "Slide number must be between 1 and N inclusive.")
    ELSE LET s1 == removeChild(s, s.activeSlideEl)
         IN  IF ~Ok(s1) THEN s1
             ELSE BuildAndInsert([s1 EXCEPT !.activeSlideIndex = Num(slideNo - 1)])

jumpToSlide(s, slideNo) ==
    IF slideNo < 1 \/ slideNo > Len(s.flowData)
    THEN Log(s, "Slide number must be between 1 and N inclusive.")
    ELSE LET s1 == removeChild(s, s.activeSlideEl)
         IN  IF ~Ok(s1) THEN s1
             ELSE BuildAndInsert([s1 EXCEPT !.activeSlideIndex = Num(slideNo - 1)])

setFlowURL(s, newURL) == stopFlow(s)

\* A response: its HTTP status and its text, which parses to a flow or does
\* not parse as JSON.
Responses ==
    [status : {200}, parses : {TRUE}, json : Flows]
    \cup [status : {404}, parses : {TRUE}, json : {f \in Flows : Len(f) = 1}]
    \cup [status : {200, 404}, parses : {FALSE}, json : {<< >>}]

\* flowLoaded emptying the flow when the status is not 200
flowLoaded_UnsetsOnFailure(s, response) ==
    IF response.status = 200
    THEN IF response.parses
         THEN [s EXCEPT !.flowData = response.json]
         ELSE Log(s, "There was a problem parsing the FlowFile.")
    ELSE Log([s EXCEPT !.flowData = << >>],
             "Couldn't load FlowFile. Please check the URL is correct")

\* flowLoaded dropping the response of a controller that has been stopped
flowLoaded_DropsWhenStopped(s, response) ==
    IF s.activeSlideIndex = Null THEN s
    ELSE IF response.status = 200
    THEN IF response.parses
         THEN [s EXCEPT !.flowData = response.json]
         ELSE Log(s, "There was a problem parsing the FlowFile.")
    ELSE Log(s, "Couldn't load FlowFile. Please check the URL is correct")

flowLoaded(s, response) ==
    IF response.status = 200
    THEN IF response.parses
         THEN [s EXCEPT !.flowData = response.json]
         ELSE Log(s, "There was a problem parsing the FlowFile.")
    ELSE Log(s, "Couldn't load FlowFile. Please check the URL is correct")

flowError(s) == Log(s, "There was a problem making a request to the FlowFile")

\* The callers' continuations: README.md:101-103, or one that does nothing.
Continuations == {"startFlow", "nothing"}

afterLoad(s, cont) ==
    LET s1 == [s EXCEPT !.ran = Append(@, <<"afterLoad", 0>>)]
    IN  IF cont = "startFlow" THEN startFlow(s1) ELSE s1

\* function (response) { self.flowLoaded(response); afterLoad(); }
onLoad(s, response, cont) == afterLoad(flowLoaded(s, response), cont)

KeyCodes == {39, 37, 27, 13}

handleKeyDown(s, keyCode) ==
    CASE keyCode = 39 -> nextSlide(s)
      [] keyCode = 37 -> prevSlide(s)
      [] keyCode = 27 -> stopFlow(s)
      [] OTHER -> s

-----------------------------------------------------------------------------
(* The state machine. *)

\* new Orient(options): init
Init ==
    /\ options \in [keyEvents : BOOLEAN, autoScroll : {TRUE}]
    /\ flowURL = "/flows/demo.json"
    /\ flowData = << >>
    /\ activeSlideIndex = Num(0)
    /\ activeSlideEl = Undefined
    /\ slideEl = Undefined
    /\ attachTargetEl = Undefined
    /\ keyListener = options.keyEvents
    /\ page = {}
    /\ orphans = 0
    /\ els = << >>
    /\ targetClass = {}
    /\ targetStyle = InitialTargetStyle
    /\ innerWidth = 1200
    /\ scrollY = 0
    /\ inflight = << >>
    /\ second = NoSecond

\* the elements a controller still references
Live(r) ==
    (IF r.activeSlideEl.t = "el" THEN {r.activeSlideEl.id} ELSE {})
    \cup (IF r.slideEl.t = "el" THEN {r.slideEl.id} ELSE {})
    \cup (IF r.second = NoSecond THEN {}
          ELSE (IF r.second.activeSlideEl.t = "el" THEN {r.second.activeSlideEl.id} ELSE {})
               \cup (IF r.second.slideEl.t = "el" THEN {r.second.slideEl.id} ELSE {}))

\* a reference as it is kept once the handler has returned
Ref(r, v) == IF v.t = "el" /\ v.id \notin r.page THEN DetachedEl ELSE v

\* The state a handler leaves, r being the record it returned.
After(r) ==
    [flowData |-> r.flowData,
     activeSlideIndex |-> r.activeSlideIndex,
     activeSlideEl |-> Ref(r, r.activeSlideEl),
     slideEl |-> Ref(r, r.slideEl),
     attachTargetEl |-> r.attachTargetEl,
     keyListener |-> r.keyListener,
     page |-> r.page \cap Live(r),
     orphans |-> r.orphans + Cardinality(r.page \ Live(r)),
     els |-> [i \in r.page \cap Live(r) |-> r.els[i]],
     targetClass |-> r.targetClass,
     targetStyle |-> r.targetStyle,
     innerWidth |-> r.innerWidth,
     scrollY |-> r.scrollY,
     second |-> IF r.second = NoSecond THEN NoSecond
                ELSE [r.second EXCEPT !.activeSlideEl = Ref(r, @),
                                      !.slideEl = Ref(r, @)]]

\* A handler has run from Cur and returned r.
Commit(r) ==
    \E a \in {After(r)} :
    /\ Cardinality(a.page) + a.orphans <= MaxPage
    /\ flowData' = a.flowData
    /\ activeSlideIndex' = a.activeSlideIndex
    /\ activeSlideEl' = a.activeSlideEl
    /\ slideEl' = a.slideEl
    /\ attachTargetEl' = a.attachTargetEl
    /\ keyListener' = a.keyListener
    /\ page' = a.page
    /\ orphans' = a.orphans
    /\ els' = a.els
    /\ targetClass' = a.targetClass
    /\ targetStyle' = a.targetStyle
    /\ innerWidth' = a.innerWidth
    /\ scrollY' = a.scrollY
    /\ second' = a.second
    /\ UNCHANGED options

RemoveAt(q, i) == [j \in 1..(Len(q) - 1) |-> IF j < i THEN q[j] ELSE q[j + 1]]

\* loadFlow(afterLoad): httpGet sends the request.  No handler reads the url the
\* request was opened with (flowLoaded and flowError read self.flowURL), so a
\* request in flight is its load callback.
LoadFlowUpTo(n) ==
    \E cont \in Continuations :
        /\ Len(inflight) < n
        /\ inflight' = Append(inflight, [afterLoad |-> cont])
        /\ UNCHANGED <<flowURL, flowData, activeSlideIndex, activeSlideEl, slideEl,
                       attachTargetEl, keyListener, options, page, orphans, els,
                       targetClass, targetStyle, innerWidth, scrollY, second>>

LoadFlow == LoadFlowUpTo(MaxInFlight)

\* the "load" event of request i, with this response
XhrLoadOf(i, response) ==
    /\ i \in DOMAIN inflight
    /\ Commit(onLoad(Cur, response, inflight[i].afterLoad))
    /\ inflight' = RemoveAt(inflight, i)
    /\ UNCHANGED flowURL

XhrLoad == \E i \in DOMAIN inflight, response \in Responses : XhrLoadOf(i, response)

\* the "error" event of a request
XhrError ==
    \E i \in DOMAIN inflight :
        /\ Commit(flowError(Cur))
        /\ inflight' = RemoveAt(inflight, i)
        /\ UNCHANGED flowURL

StartFlow ==
    /\ Commit(startFlow(Cur))
    /\ UNCHANGED <<flowURL, inflight>>

NextSlide ==
    /\ Commit(nextSlide(Cur))
    /\ UNCHANGED <<flowURL, inflight>>

PrevSlide ==
    /\ Commit(prevSlide(Cur))
    /\ UNCHANGED <<flowURL, inflight>>

JumpToSlideOf(slideNo) ==
    /\ Commit(jumpToSlide(Cur, slideNo))
    /\ UNCHANGED <<flowURL, inflight>>

JumpToSlide == \E slideNo \in SlideNumbers : JumpToSlideOf(slideNo)

StopFlow ==
    /\ Commit(stopFlow(Cur))
    /\ UNCHANGED <<flowURL, inflight>>

SetFlowURL ==
    \E newURL \in URLs :
        LET r == setFlowURL(Cur, newURL) IN
        /\ Commit(r)
        /\ flowURL' = IF Ok(r) THEN newURL ELSE flowURL
        /\ UNCHANGED inflight

\* the window's "resize" event, bound to positionSlide at construction
Resize ==
    \E w \in Widths :
        /\ Commit(positionSlide([Cur EXCEPT !.innerWidth = w]))
        /\ UNCHANGED <<flowURL, inflight>>

\* the document's "keydown" event, while handleKeyDown is bound to it
KeyDown ==
    \E keyCode \in KeyCodes :
        /\ keyListener
        /\ Commit(handleKeyDown(Cur, keyCode))
        /\ UNCHANGED <<flowURL, inflight>>

Next ==
    \/ LoadFlow
    \/ XhrLoad
    \/ XhrError
    \/ StartFlow
    \/ NextSlide
    \/ PrevSlide
    \/ JumpToSlide
    \/ StopFlow
    \/ SetFlowURL
    \/ Resize
    \/ KeyDown

Spec == Init /\ [][Next]_vars

\* A controller that has loaded a one-slide FlowFile (loadFlow with a
\* continuation that does nothing), in a window of some width; the tour is
\* then started and stopped.
InitRender ==
    /\ options \in [keyEvents : BOOLEAN, autoScroll : {TRUE}]
    /\ flowURL = "/flows/demo.json"
    /\ flowData \in RenderFlows
    /\ activeSlideIndex = Num(0)
    /\ activeSlideEl = Undefined
    /\ slideEl = Undefined
    /\ attachTargetEl = Undefined
    /\ keyListener = options.keyEvents
    /\ page = {}
    /\ orphans = 0
    /\ els = << >>
    /\ targetClass = {}
    /\ targetStyle = InitialTargetStyle
    /\ innerWidth \in RenderWidths
    /\ scrollY = 0
    /\ inflight = << >>
    /\ second = NoSecond

NextRender ==
    \/ StartFlow
    \/ StopFlow

SpecRender == InitRender /\ [][NextRender]_vars

\* The controller driven by loads, starts and stops only, with several
\* requests in flight.
LoadFlows == LoadFlowUpTo(MaxFetches)

NextFetch ==
    \/ LoadFlows
    \/ XhrLoad
    \/ XhrError
    \/ StartFlow
    \/ StopFlow
    \/ SetFlowURL

SpecFetch == Init /\ [][NextFetch]_vars


\* A page with two controllers (README, "Using Multiple Flows": "you can
\* either create a new Orient instance ... or re-use the same instance").  The
\* page calls its first controller orient, as README "Starting a Flow" does;
\* the variables above are that controller's fields and second holds the
\* fields of the other one.  The page, the window and the page's elements
\* are shared.
Own(s) ==
    [t |-> "controller", flowData |-> s.flowData,
     activeSlideIndex |-> s.activeSlideIndex, activeSlideEl |-> s.activeSlideEl,
     slideEl |-> s.slideEl, attachTargetEl |-> s.attachTargetEl,
     keyListener |-> s.keyListener]

\* The two controllers exchanged: a method of the second controller, whose
\* self and this are the second controller, runs on Swap(s) and leaves Swap
\* of what it returns.
Swap(s) ==
    [s EXCEPT !.flowData = s.second.flowData,
              !.activeSlideIndex = s.second.activeSlideIndex,
              !.activeSlideEl = s.second.activeSlideEl,
              !.slideEl = s.second.slideEl,
              !.attachTargetEl = s.second.attachTargetEl,
              !.keyListener = s.second.keyListener,
              !.second = Own(s)]

Buttons == {"exit", "prev", "next"}

\* stopFlow, prevSlide and nextSlide as the operation behind each button
Operation(s, button) ==
    CASE button = "exit" -> stopFlow(s)
      [] button = "prev" -> prevSlide(s)
      [] button = "next" -> nextSlide(s)

\* slide element id is under document.body and has this button
HasButton(a, id, button) ==
    /\ id \in a.page
    /\ CASE button = "exit" -> a.els[id].exitButton
         [] button = "prev" -> a.els[id].prevButton
         [] button = "next" -> a.els[id].nextButton

\* The click listener of a button of slide element id.  buildSlide binds
\* orient.stopFlow, orient.prevSlide and orient.nextSlide, the methods of the
\* controller the page calls orient, whichever controller builds the slide;
\* each of them works on its own self.
ClickListener(s, id, button) == Operation(s, button)

\* the flows the two controllers have loaded
TwoFlows == {<<Modal, Modal>>, <<FloatA, Modal>>}

InitTwo ==
    /\ options = [keyEvents |-> FALSE, autoScroll |-> TRUE]
    /\ flowURL = "/flows/demo.json"
    /\ flowData \in TwoFlows
    /\ activeSlideIndex = Num(0)
    /\ activeSlideEl = Undefined
    /\ slideEl = Undefined
    /\ attachTargetEl = Undefined
    /\ keyListener = FALSE
    /\ page = {}
    /\ orphans = 0
    /\ els = << >>
    /\ targetClass = {}
    /\ targetStyle = InitialTargetStyle
    /\ innerWidth = 1200
    /\ scrollY = 0
    /\ inflight = << >>
    /\ \E flow \in TwoFlows :
           second = [t |-> "controller", flowData |-> flow,
                     activeSlideIndex |-> Num(0), activeSlideEl |-> Undefined,
                     slideEl |-> Undefined, attachTargetEl |-> Undefined,
                     keyListener |-> FALSE]

StartSecond ==
    /\ Commit(Swap(startFlow(Swap(Cur))))
    /\ UNCHANGED <<flowURL, inflight>>

NextSecond ==
    /\ Commit(Swap(nextSlide(Swap(Cur))))
    /\ UNCHANGED <<flowURL, inflight>>

StopSecond ==
    /\ Commit(Swap(stopFlow(Swap(Cur))))
    /\ UNCHANGED <<flowURL, inflight>>

\* the user clicks a button of a slide on the page
Click ==
    \E id \in page, button \in Buttons :
        /\ HasButton(State, id, button)
        /\ Commit(ClickListener(Cur, id, button))
        /\ UNCHANGED <<flowURL, inflight>>

NextTwo ==
    \/ StartFlow
    \/ NextSlide
    \/ StopFlow
    \/ StartSecond
    \/ NextSecond
    \/ StopSecond
    \/ Click

SpecTwo == InitTwo /\ [][NextTwo]_vars

-----------------------------------------------------------------------------
(* Vocabulary of the properties.  Each is stated of a state record a: the  *)
(* current one (State) or the one a handler leaves (After).                *)

\* a tour is active: the controller holds a slide element
Active(a) == Truthy(a.activeSlideEl)

\* the slide wrappers under document.body
SlidesOnPage(a) == Cardinality(a.page) + a.orphans

\* Active(i) with slide i of the flow rendered as the only slide on the page
Rendered(a, i) ==
    /\ a.activeSlideIndex = Num(i)
    /\ i < Len(a.flowData)
    /\ a.activeSlideEl.t = "el"
    /\ a.page = {a.activeSlideEl.id}
    /\ a.orphans = 0
    /\ a.els[a.activeSlideEl.id].wrapped
    /\ a.els[a.activeSlideEl.id].index = i
    /\ a.els[a.activeSlideEl.id].slide = a.flowData[i + 1]

\* Idle: no slide on the page, index unset, no rendered element
IdleState(a) ==
    /\ a.page = {}
    /\ a.orphans = 0
    /\ a.activeSlideIndex = Null
    /\ ~Truthy(a.activeSlideEl)

\* the page element the selector of a slide resolves to, as a set
TargetOf(slide) ==
    IF slide.target = << >> THEN {}
    ELSE LET found == IF slide.target[1] \in {"#", "."}
                      THEN querySelector(slide.target)
                      ELSE querySelector(<<"[data-orient-target='">> \o slide.target \o <<"']">>)
         IN  IF Truthy(found) THEN {found.id} ELSE {}

\* the slide the rendered element shows, when the tour shows one
ShownSlide(a) ==
    IF a.activeSlideEl.t = "el" /\ a.activeSlideEl.id \in a.page
    THEN {a.els[a.activeSlideEl.id].slide}
    ELSE {}

-----------------------------------------------------------------------------
(* C1: from a controller that shows nothing (no slide on the page, no      *)
(* highlighted target) and has a flow of N >= 1 slides loaded, start()     *)
(* renders slide 0, each of the next N-1 next() calls renders the next     *)
(* slide as the only slide of the page, and one more next() leaves the     *)
(* controller Idle with no highlighted target.                             *)

RECURSIVE WalkFrom(_, _)
WalkFrom(a, i) ==
    /\ Rendered(a, i)
    /\ \A b \in {After(nextSlide(Run(a)))} :
           IF i = Len(a.flowData) - 1
           THEN IdleState(b) /\ b.targetClass = {}
           ELSE WalkFrom(b, i + 1)

ShowsNothing ==
    /\ ~Active(State)
    /\ SlidesOnPage(State) = 0
    /\ targetClass = {}

C1_StartThenNextVisitsAll ==
    (ShowsNothing /\ Len(flowData) >= 1) => WalkFrom(After(startFlow(Cur)), 0)

\* the same walk, for the flows whose media are all of a known type
KnownMedia(flow) ==
    \A i \in DOMAIN flow : flow[i].media.type \in {"none", "video", "image"}

C1_WalkOfKnownMedia ==
    (ShowsNothing /\ Len(flowData) >= 1 /\ KnownMedia(flowData))
        => WalkFrom(After(startFlow(Cur)), 0)

-----------------------------------------------------------------------------
(* C2: in every reachable state exactly one slide wrapper is under         *)
(* document.body while a tour is active, and none while no tour is active. *)

C2_OneSlideWhileActive ==
    /\ Active(State) => SlidesOnPage(State) = 1
    /\ ~Active(State) => SlidesOnPage(State) = 0

-----------------------------------------------------------------------------
(* C3: in every reachable state activeSlideIndex is a valid index of the   *)
(* current flow while a tour is active, and is unset (null) while none is. *)

C3_IndexValidOrUnset ==
    /\ Active(State) =>
           /\ IsNum(activeSlideIndex)
           /\ activeSlideIndex.n >= 0
           /\ activeSlideIndex.n < Len(flowData)
    /\ ~Active(State) => activeSlideIndex = Null

-----------------------------------------------------------------------------
(* C4: from every active state, jump(k) with 1 <= k <= N sets the index to *)
(* k-1, takes the slide rendered before off the page and renders slide k-1 *)
(* as the only slide on the page.                                          *)

C4_JumpRendersSlide ==
    \A k \in SlideNumbers :
        (Active(State) /\ 1 <= k /\ k <= Len(flowData)) =>
            \A a \in {After(jumpToSlide(Cur, k))} :
                /\ Rendered(a, k - 1)
                /\ a.activeSlideEl # activeSlideEl

\* the same, from the states Active(i) whose slide is the only one on the
\* page, and for the target slides whose media is of a known type
C4_JumpFromRendered ==
    \A k \in SlideNumbers :
        (/\ IsNum(activeSlideIndex)
         /\ activeSlideIndex.n < Len(flowData)
         /\ Rendered(State, activeSlideIndex.n)
         /\ 1 <= k /\ k <= Len(flowData)
         /\ KnownMedia(<<flowData[k]>>)) =>
            \A a \in {After(jumpToSlide(Cur, k))} :
                /\ Rendered(a, k - 1)
                /\ a.activeSlideEl # activeSlideEl

-----------------------------------------------------------------------------
(* C5: in every reachable state, jump(n) with n < 1 or n > N throws        *)
(* nothing, reports the range error and leaves the whole state as it was:  *)
(* index, rendered element, page, attached target and its styling.         *)

C5_JumpOutOfRangeRejected ==
    \A n \in SlideNumbers :
        (n < 1 \/ n > Len(flowData)) =>
            \A r \in {jumpToSlide(Cur, n)} :
                /\ Ok(r)
                /\ r.log = {"Slide number must be between 1 and N inclusive."}
                /\ r.ran = << >>
                /\ After(r) = State

\* a float slide is shown next to its highlighted target, and a jump below
\* and a jump above the range are both rejected
C5_Witness ==
    /\ Len(flowData) = 3
    /\ Rendered(State, 0)
    /\ attachTargetEl = Target("A")
    /\ targetClass = {"A"}
    /\ jumpToSlide(Cur, 0).log # {}
    /\ jumpToSlide(Cur, 4).log # {}

-----------------------------------------------------------------------------
(* C6: in every reachable state whose index is 0, previous() leaves the    *)
(* whole state as it was: the index is 0, the same element is the one on   *)
(* the page, the attached target keeps its highlight; and when slide 0     *)
(* exists it throws nothing and reports that the flow is at its start.     *)

C6_PrevAtStartChangesNothing ==
    activeSlideIndex = Num(0) =>
        \A r \in {prevSlide(Cur)} :
            /\ After(r) = State
            /\ HasSlide(Cur) =>
                   /\ Ok(r)
                   /\ r.log = {"At start of flow - can't go any further back."}

\* slide 0, a float with an onEnd, is shown next to its highlighted target,
\* and previous() runs that onEnd and reports the start of the flow
C6_Witness ==
    /\ Rendered(State, 0)
    /\ Len(flowData) = 3
    /\ targetClass = {"A"}
    /\ attachTargetEl = Target("A")
    /\ prevSlide(Cur).ran = << <<"onEnd", 0>> >>
    /\ prevSlide(Cur).log # {}

-----------------------------------------------------------------------------
(* C7: whenever next, previous, jump or stop takes the shown slide off the *)
(* page, the target of that slide loses the highlight class and its inline *)
(* style, unless it is the target of the slide rendered in its place; and  *)
(* in every reachable state only the target of the float slide shown       *)
(* carries the highlight class, and none does when no slide is shown.      *)

\* what next, previous, jump and stop return when called now
Removers ==
    {nextSlide(Cur), prevSlide(Cur), stopFlow(Cur)}
    \cup {jumpToSlide(Cur, k) : k \in SlideNumbers}

\* the targets of the float slide shown in a
ShownTargets(a) ==
    UNION {TargetOf(slide) : slide \in {sl \in ShownSlide(a) : sl.style = "float"}}

C7_RemovalClearsTarget ==
    \A r \in Removers : \A a \in {After(r)} :
        (/\ ShownSlide(State) # {}
         /\ activeSlideEl.id \notin r.page) =>
            \A x \in ShownTargets(State) :
                /\ x \notin a.targetStyle
                /\ x \in a.targetClass => x \in ShownTargets(a)

C7_OnlyShownTargetHighlighted == targetClass \subseteq ShownTargets(State)

C7_TargetStylingCleared ==
    /\ C7_RemovalClearsTarget
    /\ C7_OnlyShownTargetHighlighted

-----------------------------------------------------------------------------
(* C8: whenever start, next, previous or jump renders a float slide whose  *)
(* selector resolves to no element, the slide is at top 0, left 0 and no   *)
(* element of the page carries the highlight class afterwards.             *)

\* what start, next, previous and jump return when called now
Renderers ==
    {startFlow(Cur), nextSlide(Cur), prevSlide(Cur)}
    \cup {jumpToSlide(Cur, k) : k \in SlideNumbers}

\* r has rendered a float slide whose selector resolves to no element
RenderedUnresolvedFloat(r) ==
    /\ Ok(r)
    /\ r.ret.t = "el"
    /\ r.els[r.ret.id].slide.style = "float"
    /\ r.els[r.ret.id].slide.target # << >>
    /\ TargetOf(r.els[r.ret.id].slide) = {}

C8_UnresolvedFloatAtOrigin ==
    \A r \in Renderers :
        RenderedUnresolvedFloat(r) =>
            /\ r.els[r.ret.id].top = Px(0)
            /\ r.els[r.ret.id].left = Px(0)
            /\ After(r).targetClass = {}

\* its first half alone: the position
C8_AtOrigin ==
    \A r \in Renderers :
        RenderedUnresolvedFloat(r) =>
            /\ r.els[r.ret.id].top = Px(0)
            /\ r.els[r.ret.id].left = Px(0)

-----------------------------------------------------------------------------
(* C9: from every reachable state stop() throws nothing and leaves the     *)
(* controller Idle: no slide on the page, the attached target without its  *)
(* highlight and inline style, the index null, the element reference null, *)
(* the key listener detached; and from an Idle state it changes nothing.   *)

C9_StopYieldsIdle ==
    \A r \in {stopFlow(Cur)} : \A a \in {After(r)} :
        /\ Ok(r)
        /\ IdleState(a)
        /\ a.activeSlideEl = Null
        /\ ~a.keyListener
        /\ Active(State) /\ Truthy(attachTargetEl) =>
               /\ attachTargetEl.id \notin a.targetClass
               /\ attachTargetEl.id \notin a.targetStyle
        /\ IdleState(State) => a = State

\* the same, from the states Active(i) whose slide is the only one on the page
C9_StopFromRendered ==
    (IsNum(activeSlideIndex) /\ Rendered(State, activeSlideIndex.n)) =>
        \A r \in {stopFlow(Cur)} : \A a \in {After(r)} :
            /\ Ok(r)
            /\ IdleState(a)
            /\ a.activeSlideEl = Null
            /\ ~a.keyListener
            /\ Truthy(attachTargetEl) =>
                   /\ attachTargetEl.id \notin a.targetClass
                   /\ attachTargetEl.id \notin a.targetStyle

-----------------------------------------------------------------------------
(* C10: the continuation given to loadFlow runs only when the response has *)
(* the success status and its text parsed into the flow; it does not run   *)
(* on a network error, another status or a text that does not parse.       *)

RanAfterLoad(r) == \E j \in DOMAIN r.ran : r.ran[j][1] = "afterLoad"

C10_ContinuationOnlyOnSuccess ==
    \A i \in DOMAIN inflight :
        /\ ~RanAfterLoad(flowError(Cur))
        /\ \A response \in Responses :
               RanAfterLoad(onLoad(Cur, response, inflight[i].afterLoad)) =>
                   /\ response.status = 200
                   /\ response.parses

\* its half about the network error alone
C10_NotOnNetworkError ==
    \A i \in DOMAIN inflight : ~RanAfterLoad(flowError(Cur))

-----------------------------------------------------------------------------
(* C11: with keyEvents enabled, in every state with an active tour a       *)
(* right-arrow key press does what next() does, a left-arrow what          *)
(* previous() does and an escape what stop() does, also in a tour started  *)
(* after an earlier stop, end of flow or setFlowURL; with keyEvents not    *)
(* enabled no key press changes anything.                                  *)

\* what a key press leaves: the handler runs only while it is bound
KeyPress(keyCode) == IF keyListener THEN handleKeyDown(Cur, keyCode) ELSE Cur

C11_KeysOffChangeNothing ==
    ~options.keyEvents => \A keyCode \in KeyCodes : After(KeyPress(keyCode)) = State

C11_KeysDriveActiveTour ==
    /\ (options.keyEvents /\ Active(State)) =>
           /\ KeyPress(39) = nextSlide(Cur)
           /\ KeyPress(37) = prevSlide(Cur)
           /\ KeyPress(27) = stopFlow(Cur)
    /\ C11_KeysOffChangeNothing

-----------------------------------------------------------------------------
(* C12: whenever start, next, previous or jump reaches a slide whose media *)
(* type is unknown, the operation throws nothing, logs the media-type      *)
(* error, and leaves that slide rendered without a media element as the    *)
(* slide the controller holds, attached to the page.                       *)

\* r has reached a slide whose media type is neither "video" nor "image"
ReachedUnknownMedia(r) == "Media type should be 'video' or 'image'" \in r.log

C12_UnknownMediaNotFatal ==
    \A r \in Renderers :
        ReachedUnknownMedia(r) =>
            /\ Ok(r)
            /\ r.activeSlideEl.t = "el"
            /\ r.activeSlideEl.id \in r.page
            /\ r.els[r.activeSlideEl.id].index = r.activeSlideIndex.n
            /\ r.els[r.activeSlideEl.id].media = "none"

-----------------------------------------------------------------------------
(* C13: whenever start, next, previous or jump renders a float slide whose *)
(* selector resolves to an element with the absolute box (left, right,     *)
(* top, height), in a window of width W: top is box.top + box.height; when *)
(* box.left + 360 > W the slide is flagged right-aligned and its right is  *)
(* W - box.right; otherwise it is not flagged and its left is box.left.    *)
(* For the box of "#a" (left 100, top 50, width 80, height 20): W = 1200   *)
(* gives left 100 and top 70, W = 400 gives right-aligned with right 220.  *)

\* the element r has rendered
RenderedEl(r) == r.els[r.ret.id]

\* r has rendered a float slide whose selector resolves to an element
RenderedAttachedFloat(r) ==
    /\ Ok(r)
    /\ r.ret.t = "el"
    /\ RenderedEl(r).slide.style = "float"
    /\ TargetOf(RenderedEl(r).slide) # {}

C13_FloatPlacement ==
    \A r \in Renderers :
        RenderedAttachedFloat(r) =>
            \A x \in TargetOf(RenderedEl(r).slide) :
                \E box \in {getElAbsolutePosition(x)} :
                    /\ RenderedEl(r).top = Px(box.top + box.height)
                    /\ IF box.left + 360 > r.innerWidth
                       THEN /\ RenderedEl(r).alignedRight
                            /\ RenderedEl(r).right = Px(r.innerWidth - box.right)
                       ELSE /\ ~RenderedEl(r).alignedRight
                            /\ RenderedEl(r).left = Px(box.left)
                    /\ (x = "A" /\ r.innerWidth = 1200) =>
                           /\ RenderedEl(r).left = Px(100)
                           /\ RenderedEl(r).top = Px(70)
                    /\ (x = "A" /\ r.innerWidth = 400) =>
                           /\ RenderedEl(r).alignedRight
                           /\ RenderedEl(r).right = Px(220)

\* the float next to "#a" is shown, right-aligned, in the window of width 400
C13_Witness ==
    /\ flowData = <<FloatA>>
    /\ innerWidth = 400
    /\ Rendered(State, 0)
    /\ els[activeSlideEl.id].alignedRight
    /\ els[activeSlideEl.id].right = Px(220)
    /\ els[activeSlideEl.id].top = Px(70)

-----------------------------------------------------------------------------
(* C14: whenever a video slide is rendered, each of muted, loop and        *)
(* autoplay of the video element is the slide's value when the slide gives *)
(* one (an explicit false included) and true otherwise, and controls is    *)
(* the slide's value when given and false otherwise.                       *)

\* r has rendered a slide with a video
RenderedVideo(r) ==
    /\ Ok(r)
    /\ r.ret.t = "el"
    /\ RenderedEl(r).slide.media.type = "video"

C14_VideoAttributes ==
    \A r \in Renderers :
        RenderedVideo(r) =>
            \E m \in {RenderedEl(r).slide.media} :
                /\ RenderedEl(r).media = "video"
                /\ \A b \in BOOLEAN :
                       /\ m.muted = Bool(b) => RenderedEl(r).muted = Bool(b)
                       /\ m.loop = Bool(b) => RenderedEl(r).loop = Bool(b)
                       /\ m.autoplay = Bool(b) => RenderedEl(r).autoplay = Bool(b)
                       /\ m.controls = Bool(b) => RenderedEl(r).controls = Bool(b)
                /\ m.muted = Undefined => RenderedEl(r).muted = Bool(TRUE)
                /\ m.loop = Undefined => RenderedEl(r).loop = Bool(TRUE)
                /\ m.autoplay = Undefined => RenderedEl(r).autoplay = Bool(TRUE)
                /\ m.controls = Undefined => RenderedEl(r).controls = Bool(FALSE)

\* a video is shown whose slide sets muted to false and gives no loop and
\* no controls
C14_Witness ==
    /\ Rendered(State, 0)
    /\ flowData[1].media.type = "video"
    /\ flowData[1].media.muted = Bool(FALSE)
    /\ flowData[1].media.loop = Undefined
    /\ flowData[1].media.controls = Undefined
    /\ els[activeSlideEl.id].muted = Bool(FALSE)
    /\ els[activeSlideEl.id].loop = Bool(TRUE)
    /\ els[activeSlideEl.id].controls = Bool(FALSE)

-----------------------------------------------------------------------------
(* C15: whenever start, next, previous or jump renders a slide at index i  *)
(* of a flow of N slides, the slide has the exit button, has the previous  *)
(* button exactly when i > 0 and has the next button exactly when          *)
(* i < N - 1.                                                              *)

C15_ButtonRow ==
    \A r \in Renderers :
        (Ok(r) /\ r.ret.t = "el") =>
            /\ RenderedEl(r).index = r.activeSlideIndex.n
            /\ RenderedEl(r).exitButton
            /\ RenderedEl(r).prevButton <=> (r.activeSlideIndex.n > 0)
            /\ RenderedEl(r).nextButton <=> (r.activeSlideIndex.n < Len(r.flowData) - 1)

\* the middle slide of three is shown with all three buttons, and next()
\* renders the last slide without a next button
C15_Witness ==
    /\ Len(flowData) = 3
    /\ Rendered(State, 1)
    /\ els[activeSlideEl.id].exitButton
    /\ els[activeSlideEl.id].prevButton
    /\ els[activeSlideEl.id].nextButton
    /\ Ok(nextSlide(Cur))
    /\ ~RenderedEl(nextSlide(Cur)).nextButton

-----------------------------------------------------------------------------
(* C16: while a tour is active no step changes the flow: in particular no  *)
(* load response replaces flowData under a slide that is shown.            *)

C16_FlowFixedWhileActive == [][Active(State) => flowData' = flowData]_vars

-----------------------------------------------------------------------------
(* C17: from every reachable state setFlowURL(newURL) and stop() throw     *)
(* nothing, leave the controller Idle and leave no flow loaded, so that a  *)
(* start() made next renders no slide.                                     *)

\* what stop and setFlowURL return when called now
Stoppers == {stopFlow(Cur)} \cup {setFlowURL(Cur, newURL) : newURL \in URLs}

C17_StopDiscardsFlow ==
    \A r \in Stoppers :
        /\ Ok(r)
        /\ IdleState(After(r))
        /\ r.flowData = << >>
        /\ startFlow(Run(After(r))).ret.t # "el"

\* its first half alone, from the states Active(i) whose slide is the only
\* one on the page: the tour is stopped
C17_StopsTour ==
    (IsNum(activeSlideIndex) /\ Rendered(State, activeSlideIndex.n)) =>
        \A r \in Stoppers : Ok(r) /\ IdleState(After(r))

-----------------------------------------------------------------------------
(* C18: whenever start, next, previous or jump reaches a float slide that  *)
(* carries no target, the operation throws nothing and the slide it        *)
(* renders has top 0 and left 0.                                           *)

\* r has rendered a float slide that carries no target
RenderedBareFloat(r) ==
    /\ Ok(r)
    /\ r.ret.t = "el"
    /\ RenderedEl(r).slide.style = "float"
    /\ RenderedEl(r).slide.target = << >>

\* the flow's first slide is a float without target
StartsOnBareFloat ==
    /\ Len(flowData) >= 1
    /\ flowData[1].style = "float"
    /\ flowData[1].target = << >>

-----------------------------------------------------------------------------
(* C19: in every state where the element the controller holds is on the    *)
(* page, the index is i and slide i of the flow defines onEnd, next() and  *)
(* previous() each run that onEnd exactly once, while the index is still   *)
(* i; and in every reachable state jump() and stop() run no onEnd.         *)

\* the tour shows a slide and slide i of the flow is the current one
ActiveAt(a, i) ==
    /\ a.activeSlideEl.t = "el"
    /\ a.activeSlideEl.id \in a.page
    /\ a.activeSlideIndex = Num(i)
    /\ i + 1 \in DOMAIN a.flowData

-----------------------------------------------------------------------------
(* C20: in every reachable state, stopped or not and whatever the flow     *)
(* URL has been set to since, the successful response of any request still *)
(* in flight replaces flowData by the flow it carries; and of two requests *)
(* in flight answered successfully one after the other, the flow of the    *)
(* one answered last is the flow that stays.                               *)

Successful == {response \in Responses : response.status = 200 /\ response.parses}

C20_StaleResponseOverwrites ==
    /\ \A i \in DOMAIN inflight : \A response \in Successful :
           /\ flowLoaded(Cur, response).flowData = response.json
           /\ onLoad(Cur, response, inflight[i].afterLoad).flowData = response.json
    /\ \A i, j \in DOMAIN inflight : \A first, last \in Successful :
           i # j =>
               \A a \in {After(onLoad(Cur, first, inflight[i].afterLoad))} :
                   onLoad(Run(a), last, inflight[j].afterLoad).flowData = last.json

\* two requests are in flight for a controller that holds a flow and has
\* been stopped
C20_Witness ==
    /\ Len(inflight) = 2
    /\ activeSlideIndex = Null
    /\ Len(flowData) = 3
    /\ flowLoaded(Cur, [status |-> 200, parses |-> TRUE, json |-> <<Modal>>]).flowData
           = <<Modal>>

-----------------------------------------------------------------------------
(* C21: in every reachable state with a request in flight, a response that *)
(* has another status than 200 or whose text does not parse, and the error *)
(* event of the request, are each reported on the console by the load      *)
(* handler, which throws nothing and changes nothing: the flow data, the   *)
(* index, the slide shown and the page are as before; and the flow data is *)
(* as before also once the caller's continuation has run.                  *)

Failed == Responses \ Successful

C21_FailedLoadChangesNothing ==
    \A i \in DOMAIN inflight :
        /\ \A response \in Failed :
               /\ Ok(flowLoaded(Cur, response))
               /\ flowLoaded(Cur, response).log # {}
               /\ After(flowLoaded(Cur, response)) = State
               /\ onLoad(Cur, response, inflight[i].afterLoad).flowData = flowData
        /\ Ok(flowError(Cur))
        /\ flowError(Cur).log # {}
        /\ After(flowError(Cur)) = State

\* a slide of a loaded flow is shown while a request is in flight, and a
\* 404 response carrying another flow is reported and leaves the flow
C21_Witness ==
    /\ Len(inflight) >= 1
    /\ Len(flowData) = 3
    /\ Rendered(State, 0)
    /\ \E response \in Failed :
           /\ response.status = 404
           /\ response.json # << >>
           /\ flowLoaded(Cur, response).flowData = flowData
           /\ flowLoaded(Cur, response).log # {}

-----------------------------------------------------------------------------
(* C22: in every reachable state where the slide shown is a float slide of *)
(* the flow attached to a page element, whatever resize events came        *)
(* before, the slide is flagged right-aligned and has a right offset       *)
(* exactly when the left of the element's box + 360 > the window's width,  *)
(* and otherwise has a left offset and neither the flag nor a right        *)
(* offset.                                                                 *)

\* the tour shows slide i of the flow, a float attached to page element x
ShowsFloatAt(i, x) ==
    /\ Rendered(State, i)
    /\ flowData[i + 1].style = "float"
    /\ x \in TargetOf(flowData[i + 1])

C22_PlacementFollowsWidth ==
    \A i \in 0..(Len(flowData) - 1) : \A x \in Targets :
        ShowsFloatAt(i, x) =>
            \E box \in {getElAbsolutePosition(x)} :
                IF box.left + 360 > innerWidth
                THEN /\ els[activeSlideEl.id].alignedRight
                     /\ els[activeSlideEl.id].right = Px(innerWidth - box.right)
                ELSE /\ ~els[activeSlideEl.id].alignedRight
                     /\ els[activeSlideEl.id].right = Unset
                     /\ els[activeSlideEl.id].left = Px(box.left)

-----------------------------------------------------------------------------
(* C23: in every reachable state with no active tour and no slide on the   *)
(* page, next(), previous(), jump(k) and, with keyEvents enabled, an arrow *)
(* key press throw nothing and leave the controller without an active tour *)
(* and the page without a slide.                                           *)

\* no tour is active and no slide is on the page
NoTour == ~Active(State) /\ SlidesOnPage(State) = 0

\* what the navigation requests return when made now
NavigationRequests ==
    {nextSlide(Cur), prevSlide(Cur)}
    \cup {jumpToSlide(Cur, k) : k \in SlideNumbers}
    \cup (IF options.keyEvents THEN {KeyPress(39), KeyPress(37)} ELSE {})

C23_IdleNavigationHarmless ==
    NoTour =>
        \A r \in NavigationRequests : \A a \in {After(r)} :
            /\ Ok(r)
            /\ ~Active(a)
            /\ SlidesOnPage(a) = 0

-----------------------------------------------------------------------------
(* C24: in every reachable state with no active tour and no slide on the   *)
(* page, a resize event throws nothing and changes nothing but the         *)
(* window's width: the tour state and the classes and styles of the page   *)
(* elements are as before.                                                 *)

\* what the resize handler returns when the window takes width w
ResizeTo(w) == positionSlide([Cur EXCEPT !.innerWidth = w])

C24_IdleResizeHarmless ==
    NoTour =>
        \A w \in Widths :
            /\ Ok(ResizeTo(w))
            /\ After(ResizeTo(w)) = [State EXCEPT !.innerWidth = w]

-----------------------------------------------------------------------------
(* C26: whenever next, previous or stop takes a float slide attached to a  *)
(* page element off the page, that element has afterwards the inline style *)
(* the page gave it and no highlight class left over from that slide; and  *)
(* in every reachable state an element no slide was attached to has its    *)
(* own inline style and no highlight class.                                *)

\* the page elements a slide of the flows can attach to
EverTargets ==
    UNION {TargetOf(flow[i]) : <<flow, i>> \in {fi \in Flows \X (1..3) : fi[2] <= Len(fi[1])}}

C26_TargetRestored ==
    /\ \A i \in 0..(Len(flowData) - 1) : \A x \in Targets :
           ShowsFloatAt(i, x) =>
               \A r \in {nextSlide(Cur), prevSlide(Cur), stopFlow(Cur)} :
                   (Ok(r) /\ activeSlideEl.id \notin r.page) =>
                       /\ x \in r.targetStyle <=> x \in InitialTargetStyle
                       /\ x \in r.targetClass => x \in ShownTargets(After(r))
    /\ \A x \in Targets \ EverTargets :
           /\ x \notin targetClass
           /\ x \in targetStyle <=> x \in InitialTargetStyle

\* its second half alone: elements that are never a target
C26_OthersUntouched ==
    \A x \in Targets \ EverTargets :
        /\ x \notin targetClass
        /\ x \in targetStyle <=> x \in InitialTargetStyle

-----------------------------------------------------------------------------
(* C25: on a page with two controllers, in every reachable state, a click  *)
(* on the exit, previous or next button of a slide shown by a controller   *)
(* leaves the page and both controllers as that controller's stop,         *)
(* previous or next operation leaves them, the other controller's fields   *)
(* being unchanged.                                                        *)

\* slide element id is the slide the second controller shows
ShownBySecond(id) == second # NoSecond /\ second.activeSlideEl = El(id)

\* slide element id is the slide the controller called orient shows
ShownByFirst(id) == activeSlideEl = El(id)

C25_ClickActsOnRenderer ==
    \A id \in page : \A button \in Buttons :
        HasButton(State, id, button) =>
            /\ (ShownByFirst(id) /\ ~ShownBySecond(id)) =>
                   /\ After(ClickListener(Cur, id, button)) = After(Operation(Cur, button))
                   /\ After(ClickListener(Cur, id, button)).second = second
            /\ (ShownBySecond(id) /\ ~ShownByFirst(id)) =>
                   /\ After(ClickListener(Cur, id, button))
                          = After(Swap(Operation(Swap(Cur), button)))
                   /\ Own(After(ClickListener(Cur, id, button))) = Own(State)

\* its first half alone: the buttons of a slide of the controller called
\* orient act on that controller and leave the other one alone
C25_FirstControllerButtons ==
    \A id \in page : \A button \in Buttons :
        (HasButton(State, id, button) /\ ShownByFirst(id) /\ ~ShownBySecond(id)) =>
            /\ After(ClickListener(Cur, id, button)) = After(Operation(Cur, button))
            /\ After(ClickListener(Cur, id, button)).second = second

=============================================================================
